---- MODULE Spec2Model ----
(***************************************************************************)
(* URLSummarizerPlugin (src/main.py): construction (__init__), the async   *)
(* generator summarize_url_handler with its three stages, _summarize_text  *)
(* and terminate.                                                          *)
(*                                                                         *)
(* A handler invocation ("run") is an async generator.  It is modelled     *)
(* with one action per stretch of code the event loop executes without     *)
(* suspension: from a resume (or the return of an awaited external call)   *)
(* to the next yield or await.  Several runs interleave at those points.   *)
(***************************************************************************)
EXTENDS Naturals, Sequences, FiniteSets

(***************************** bounds **************************************)
\* handler invocations made on the plugin instance (they may overlap)
NumRuns == 2
\* calls of terminate the host makes in one plugin lifecycle
MaxTerminate == 1

Runs == 1..NumRuns

(************************ values of the host *******************************)
\* Python's None
None == "<None>"
\* a str value is truthy unless it is None or empty (line 73, `all([...])`)
Truthy(v) == v # None /\ v # ""

\* raw plugin configuration as returned by context.get_config (line 59):
\* a mapping; a key that is not set reads as None through config.get(key)
Configs ==
    [stt_provider_id     : {"", "stt1"},
     dify_provider_id    : {"", "dify1"},
     dify_workflow_url   : {"", "https://dify/v1/workflows/run"},
     dify_input_variable : {None},
     dify_answer_key     : {None, ""}]

\* what provider_manager.get_provider_instance(id) finds for an id: nothing
\* (exists = FALSE), an instance without an api_key attribute, or an
\* instance whose api_key is the given string
Instances ==
    {[exists |-> FALSE, has_api_key |-> FALSE, api_key |-> None],
     [exists |-> TRUE,  has_api_key |-> FALSE, api_key |-> None],
     [exists |-> TRUE,  has_api_key |-> TRUE,  api_key |-> ""],
     [exists |-> TRUE,  has_api_key |-> TRUE,  api_key |-> "sk-key"]}
Registries == [{"stt1", "dify1"} -> Instances]

\* the call inside the try block of __init__ that raises, if any
InitFaults == {"none", "get_stt", "AsyncOpenAI", "get_dify"}

VARIABLES
    \* ---- inputs of construction (kept to state what was validated)
    config,              \* self.config                        (line 59)
    providers,           \* the host's provider registry       (line 77)
    init_fault,          \* the call of the try block that raises
    init_outcome,        \* "ok" | "caught" | "escaped"        (lines 68-101)
    \* ---- fields of the plugin instance
    is_configured,       \* self.is_configured                 (lines 60, 97)
    openai_client,       \* self.openai_client                 (lines 61, 83)
    dify_api_key,        \* self.dify_api_key                  (lines 62, 92)
    dify_workflow_url,   \* self.dify_workflow_url             (line 63)
    dify_input_variable, \* self.dify_input_variable           (line 64)
    dify_answer_key,     \* self.dify_answer_key               (line 65)
    httpx_client,        \* self.httpx_client: "open"|"closed" (lines 66, 197)
    \* ---- lifecycle bookkeeping
    clients_created,     \* httpx.AsyncClient objects constructed
    close_calls,         \* aclose() calls made on the client
    terminate_calls,     \* terminate() calls made by the host
    \* ---- local storage and the handler invocations
    fs,                  \* temp files that exist on local storage
    created,             \* temp files ever created
    run,                 \* per invocation: position, locals, output
    \* ---- a single call of _summarize_text, for the claims about it alone
    sum_call

cfgvars == <<config, providers, init_fault, init_outcome, is_configured,
             openai_client, dify_api_key, dify_workflow_url,
             dify_input_variable, dify_answer_key>>
lifevars == <<httpx_client, clients_created, close_calls, terminate_calls>>
vars == <<cfgvars, lifevars, fs, created, run, sum_call>>

(****************************** exceptions *********************************)
\* every error the stages and the validation raise derives from Exception
Exc(stage, msg) == [cls |-> "Exception", stage |-> stage, msg |-> msg]
NoExc == [cls |-> "", stage |-> "", msg |-> ""]
\* mutant: the except clause catches nothing
Catches_nothing(e) == FALSE
\* `except Exception` (lines 100 and 126)
Catches(e) == e.cls = "Exception"

(***************************** construction ********************************)
\* config.get(key) / config.get(key, default)              (lines 63-65, 70-71)
ConfigGet(cfg, key, default) == IF cfg[key] = None THEN default ELSE cfg[key]

NoClient == [made |-> FALSE, api_key |-> None]

\* mutant: the api_key attribute is not asked for
ProviderOk_any_instance(inst) == inst.exists
\* `inst and hasattr(inst, "api_key")`                          (lines 82, 91)
ProviderOk(inst) == inst.exists /\ inst.has_api_key

\* the try block of __init__ (lines 68-98): the fields it leaves and the
\* exception it raised, if any
Validate(cfg, reg, fault) ==
    LET stt_provider_id  == ConfigGet(cfg, "stt_provider_id", None)
        dify_provider_id == ConfigGet(cfg, "dify_provider_id", None)
        url              == ConfigGet(cfg, "dify_workflow_url", None)
        base == [is_configured |-> FALSE, openai_client |-> NoClient,
                 dify_api_key |-> None, exc |-> NoExc]
    IN  IF ~(Truthy(stt_provider_id) /\ Truthy(dify_provider_id) /\ Truthy(url))
        THEN base                                               \* line 75
        ELSE IF fault = "get_stt"
        THEN [base EXCEPT !.exc = Exc("init", "get_stt")]      \* line 81
        ELSE IF ~ProviderOk(reg[stt_provider_id])
        THEN base                                               \* line 86
        ELSE IF fault = "AsyncOpenAI"
        THEN [base EXCEPT !.exc = Exc("init", "AsyncOpenAI")]  \* line 83
        ELSE LET with_stt == [base EXCEPT !.openai_client =
                     [made |-> TRUE, api_key |-> reg[stt_provider_id].api_key]]
             IN  IF fault = "get_dify"
                 THEN [with_stt EXCEPT !.exc = Exc("init", "get_dify")] \* line 90
                 ELSE IF ~ProviderOk(reg[dify_provider_id])
                 THEN with_stt                                  \* line 95
                 ELSE [with_stt EXCEPT                          \* lines 92, 97
                          !.dify_api_key = reg[dify_provider_id].api_key,
                          !.is_configured = TRUE]

\* __init__ (lines 57-101) on the given configuration and registry
Construct(cfg, reg, fault) ==
    LET v == Validate(cfg, reg, fault)
    IN  /\ config = cfg
        /\ providers = reg
        /\ init_fault = fault
        /\ is_configured = v.is_configured
        /\ openai_client = v.openai_client
        /\ dify_api_key = v.dify_api_key
        /\ dify_workflow_url = ConfigGet(cfg, "dify_workflow_url", None)
        /\ dify_input_variable = ConfigGet(cfg, "dify_input_variable", "transcript")
        /\ dify_answer_key = ConfigGet(cfg, "dify_answer_key", "answer")
        /\ httpx_client = "open"                                \* line 66
        /\ clients_created = 1
        /\ init_outcome = IF v.exc = NoExc THEN "ok"
                          ELSE IF Catches(v.exc) THEN "caught" ELSE "escaped"

(*************************** _summarize_text *******************************)
\* A summarizer response: the HTTP status and the body.  The body is text
\* that is not JSON ("invalid"), a JSON null, a JSON array (of strings;
\* has_key: the configured answer key is one of them) or a JSON object.
\* Of an object only the two members the code reads are modelled, both
\* relative to the configured answer key k:
\*   outputs: absent, or a JSON null, string (has: k occurs in it), array
\*            (has: k is an element) or object (has: k is a member, val:
\*            its value);
\*   top:     the top-level member k, None when there is none.
Answers == {"X", "Y"}
OutputsValues ==
    {[t |-> "absent", has |-> FALSE, val |-> None],
     [t |-> "null",   has |-> FALSE, val |-> None],
     [t |-> "string", has |-> FALSE, val |-> None],
     [t |-> "string", has |-> TRUE,  val |-> None],
     [t |-> "array",  has |-> FALSE, val |-> None],
     [t |-> "array",  has |-> TRUE,  val |-> None],
     [t |-> "object", has |-> FALSE, val |-> None]}
    \cup [t : {"object"}, has : {TRUE}, val : Answers]
NoOutputs == [t |-> "absent", has |-> FALSE, val |-> None]
Bodies ==
    {[shape |-> "invalid", has_key |-> FALSE, outputs |-> NoOutputs, top |-> None],
     [shape |-> "null",    has_key |-> FALSE, outputs |-> NoOutputs, top |-> None],
     [shape |-> "array",   has_key |-> FALSE, outputs |-> NoOutputs, top |-> None],
     [shape |-> "array",   has_key |-> TRUE,  outputs |-> NoOutputs, top |-> None]}
    \cup [shape : {"object"}, has_key : {FALSE}, outputs : OutputsValues,
          top : Answers \cup {None}]
Statuses == {200, 201, 302, 404, 500}
Responses == [status : Statuses, body : Bodies]

\* a record of logger.error: the line that wrote it, the exception message
\* it formats (None when it formats none) and the response body it formats
\* (NoBody when it formats none)
NoBody == [shape |-> "none", has_key |-> FALSE, outputs |-> NoOutputs, top |-> None]
LogEntry(at, msg, body) == [at |-> at, msg |-> msg, body |-> body]

\* outcome of _summarize_text: the value returned or the exception raised,
\* and what it logged
Returned(v) == [ok |-> TRUE, value |-> v, exc |-> NoExc, log |-> <<>>]
Raised(msg) ==
    [ok |-> FALSE, value |-> None, exc |-> Exc("summarize", msg), log |-> <<>>]
\* lines 192-193: the parsed body is logged, then ValueError is raised with
\* a fixed message
RaisedFormat(body) ==
    [ok |-> FALSE, value |-> None,
     exc |-> Exc("summarize", "Dify API response format"),
     log |-> <<LogEntry("line 192", None, body)>>]

\* response.raise_for_status() (line 181): raises unless the status is 2xx
\* (httpx raises HTTPStatusError for every response that is not a success;
\* the client does not follow redirects, so a 3xx reaches this line)
RaisesForStatus(status) == ~(status >= 200 /\ status <= 299)

\* `key in x` for a JSON value x (lines 187, 189): a TypeError for a value
\* that is no container
InRaises(t) == t = "null"

\* lines 183-193 on the parsed body `data`
ResolveAnswer(body) ==
    IF body.shape = "invalid" THEN Raised("JSONDecodeError")     \* line 183
    ELSE IF body.shape = "null" THEN Raised("TypeError")         \* line 187
    ELSE IF body.shape = "array"
    THEN \* 'outputs' is no element; `key in data` is list membership and
         \* data[key] on a list is a TypeError
         IF body.has_key THEN Raised("TypeError")                \* line 190
         ELSE RaisedFormat(body)                                 \* line 193
    ELSE LET o == body.outputs
         IN  IF o.t # "absent" /\ InRaises(o.t)
             THEN Raised("TypeError")                            \* line 187
             ELSE IF o.t # "absent" /\ o.has
             THEN IF o.t = "object" THEN Returned(o.val)         \* line 188
                  ELSE Raised("TypeError")                       \* line 188
             ELSE IF body.top # None THEN Returned(body.top)     \* line 190
             ELSE RaisedFormat(body)                             \* line 193

\* _summarize_text from the response on (lines 181-193)
_summarize_text(resp) ==
    IF RaisesForStatus(resp.status)
    THEN Raised("HTTPStatusError")                               \* line 181
    ELSE ResolveAnswer(resp.body)

(**************************** notifications ********************************)
\* event.plain_result(text).  `says` lists what the message announces and
\* `text` its parts: the literal (glossed in English) and what the f-string
\* embeds in it.
Note(kind, says, text) == [kind |-> kind, says |-> says, text |-> text]
\* line 107: "plugin not configured or misconfigured ..."
MsgNotConfigured ==
    Note("config_error", <<"not_configured">>, <<"plugin not configured">>)
\* line 112: "URL received. Processing audio..."
MsgReceived ==
    Note("progress", <<"downloading">>, <<"URL received, processing audio">>)
\* mutant: the message after the download repeats the first message
MsgDownloaded_repeats_received ==
    Note("progress", <<"downloading">>, <<"URL received, processing audio">>)
\* line 116: "Audio downloaded. Transcribing..."
MsgDownloaded ==
    Note("progress", <<"downloaded", "transcribing">>,
         <<"audio downloaded, transcribing">>)
\* line 120: "Transcript generated. Summarizing..."
MsgTranscribed ==
    Note("progress", <<"transcript_complete", "summarizing">>,
         <<"transcript generated, summarizing">>)
\* mutant: the final message does not embed the answer
SummaryNote_without_answer(summary) ==
    Note("summary", <<"summary">>, <<"Summary:", None>>)
\* line 124: "Summary:\n{summary}"
SummaryNote(summary) == Note("summary", <<"summary">>, <<"Summary:", summary>>)
\* line 128: "Failed to process URL. Error: {str(e)}"
ErrorNote(e) == Note("error", <<"failed">>, <<"failed to process URL, error:", e.msg>>)

(******************************* the runs **********************************)
\* a path variable holding None
NoPath == <<>>
\* mutant: every download writes to one fixed file name
NewTemp_fixed_name(r) == <<1, 1>>
\* tempfile.NamedTemporaryFile (line 138) creates a file no other file shares
\* its name with: the n-th temp file of run r is <<r, n>>
NewTemp(r) == <<r, 1 + Cardinality({f \in created : f[1] = r})>>

\* no response received (yet)
NoResponse == [status |-> 0, body |-> NoBody]

\* position of a run: "idle" (not invoked), suspended at a yield ("y_cfg"
\* line 107, "y_recv" line 112, "y_dl" line 116, "y_tr" line 120, "y_sum"
\* line 124, "y_err" line 128), awaiting an external call ("downloading"
\* line 154, "transcribing" line 160, "summarizing" line 180), or "done"
IdleRun ==
    [pc         |-> "idle",
     audio_path |-> NoPath,     \* local of the handler          (line 110)
     file_path  |-> NoPath,     \* local of _download_audio      (line 139)
     notes      |-> <<>>,       \* notifications yielded so far
     entered    |-> <<>>,       \* stage methods called, in order
     called     |-> <<>>,       \* external services invoked, in order
     returned   |-> {},         \* stages that returned a value
     summary    |-> None,       \* local of the handler          (line 122)
     resp       |-> NoResponse, \* the summarizer's response     (line 180)
     exc        |-> NoExc,      \* the exception a stage raised
     escaped    |-> FALSE,      \* an exception left the handler
     rm_failed  |-> FALSE,      \* os.remove raised              (line 133)
     log        |-> <<>>]       \* what the run wrote to the log

\* mutant: transcription is called before the download
ResumePoint_transcribe_first(stage) ==
    CASE stage = "download"   -> "y_dl"
      [] stage = "transcribe" -> "y_recv"
      [] stage = "summarize"  -> "y_tr"
\* the yield a stage method is called after (lines 112-122)
ResumePoint(stage) ==
    CASE stage = "download"   -> "y_recv"
      [] stage = "transcribe" -> "y_dl"
      [] stage = "summarize"  -> "y_tr"

\* mutant: the configuration check is skipped
Rejected_never == FALSE
\* `if not self.is_configured` (line 106)
Rejected == ~is_configured

\* `if audio_path and os.path.exists(audio_path)` (line 131)
MustRemove(path) == path # NoPath /\ path \in fs

\* the error of a failing os.remove (line 133)
RemoveError == Exc("cleanup", "OSError")
\* mutant: the except clause of the cleanup catches nothing
CatchesRemove_nothing(e) == FALSE
\* `except Exception` of the cleanup (line 134)
CatchesRemove(e) == e.cls = "Exception"

\* the run record after os.remove raised e (lines 133-135): caught and
\* logged, else e leaves the handler
RemoveFailed(rr, e) ==
    IF CatchesRemove(e)
    THEN [rr EXCEPT !.pc = "done", !.rm_failed = TRUE,
                    !.log = Append(@, LogEntry("line 135", e.msg, NoBody))]
    ELSE [rr EXCEPT !.pc = "done", !.rm_failed = TRUE, !.escaped = TRUE]

\* the finally block (lines 130-135) ending the run whose record so far is
\* rr; rm_ok: os.remove succeeds.  A failing os.remove leaves the file.
Cleanup(r, rr) ==
    IF MustRemove(rr.audio_path)
    THEN \E rm_ok \in BOOLEAN :
            /\ fs' = IF rm_ok THEN fs \ {rr.audio_path} ELSE fs
            /\ run' = [run EXCEPT ![r] =
                         IF rm_ok THEN [rr EXCEPT !.pc = "done"]
                         ELSE RemoveFailed(rr, RemoveError)]
    ELSE /\ fs' = fs
         /\ run' = [run EXCEPT ![r] = [rr EXCEPT !.pc = "done"]]

\* mutant: a failed stage is started again from the yield before it
Raise_retry(r, rr, e) ==
    /\ run' = [run EXCEPT ![r] = [rr EXCEPT !.pc = ResumePoint(e.stage)]]
    /\ UNCHANGED fs
\* mutant: the handler removes the file before it reports the error
Raise_cleanup_first(r, rr, e) ==
    /\ run' = [run EXCEPT ![r] =
                 [rr EXCEPT !.pc = "y_err", !.exc = e,
                            !.log = Append(@, LogEntry("line 127", e.msg, NoBody)),
                            !.notes = Append(rr.notes, ErrorNote(e))]]
    /\ fs' = fs \ {rr.audio_path}
\* exception e raised inside the try block (lines 111-124) of the run whose
\* record so far is rr: caught at line 126, logged at line 127 and reported
\* at line 128, else the finally block runs and e leaves the handler
Raise(r, rr, e) ==
    IF Catches(e)
    THEN /\ run' = [run EXCEPT ![r] =
                      [rr EXCEPT !.pc = "y_err", !.exc = e,
                                 !.log = Append(@, LogEntry("line 127", e.msg, NoBody)),
                                 !.notes = Append(rr.notes, ErrorNote(e))]]
         /\ UNCHANGED fs
    ELSE Cleanup(r, [rr EXCEPT !.exc = e, !.escaped = TRUE])

\* the host calls summarize_url_handler and asks for the first notification
\* (lines 104-112)
Start(r) ==
    /\ run[r].pc = "idle"
    /\ run' = [run EXCEPT ![r] =
                 IF Rejected
                 THEN [@ EXCEPT !.pc = "y_cfg", !.notes = <<MsgNotConfigured>>]
                 ELSE [@ EXCEPT !.pc = "y_recv", !.audio_path = NoPath,
                                !.notes = <<MsgReceived>>]]
    /\ UNCHANGED <<cfgvars, lifevars, fs, created, sum_call>>

\* resumed after line 112: _download_audio creates the temp file and hands
\* the download to the executor (lines 114, 138-154)
ResumeDownload(r) ==
    /\ run[r].pc = ResumePoint("download")
    /\ LET f == NewTemp(r)
       IN  /\ fs' = fs \cup {f}
           /\ created' = created \cup {f}
           /\ run' = [run EXCEPT ![r] =
                        [@ EXCEPT !.pc = "downloading", !.file_path = f,
                                  !.entered = Append(@, "download"),
                                  !.called = Append(@, "downloader")]]
    /\ UNCHANGED <<cfgvars, lifevars, sum_call>>

\* ydl.download returns or raises (lines 154-156, 114-116)
DownloadReturn(r) ==
    /\ run[r].pc = "downloading"
    /\ \E ok \in BOOLEAN :
          IF ok
          THEN /\ run' = [run EXCEPT ![r] =
                            [@ EXCEPT !.pc = "y_dl",
                                      !.audio_path = run[r].file_path,
                                      !.returned = @ \cup {"download"},
                                      !.notes = Append(@, MsgDownloaded)]]
               /\ UNCHANGED fs
          ELSE Raise(r, run[r], Exc("download", "DownloadError"))
    /\ UNCHANGED <<cfgvars, lifevars, created, sum_call>>

\* resumed after line 116: _transcribe_audio opens the file and posts it
\* (lines 118, 159-160)
ResumeTranscribe(r) ==
    /\ run[r].pc = ResumePoint("transcribe")
    /\ LET rr == [run[r] EXCEPT !.entered = Append(@, "transcribe")]
       IN  IF rr.audio_path \in fs
           THEN /\ run' = [run EXCEPT ![r] =
                             [rr EXCEPT !.pc = "transcribing",
                                        !.called = Append(@, "speech_to_text")]]
                /\ UNCHANGED fs
           ELSE Raise(r, rr, Exc("transcribe", "FileNotFoundError"))
    /\ UNCHANGED <<cfgvars, lifevars, created, sum_call>>

\* the speech-to-text call returns or raises (lines 160-164, 118-120)
TranscribeReturn(r) ==
    /\ run[r].pc = "transcribing"
    /\ \E ok \in BOOLEAN :
          IF ok
          THEN /\ run' = [run EXCEPT ![r] =
                            [@ EXCEPT !.pc = "y_tr",
                                      !.returned = @ \cup {"transcribe"},
                                      !.notes = Append(@, MsgTranscribed)]]
               /\ UNCHANGED fs
          ELSE Raise(r, run[r], Exc("transcribe", "APIError"))
    /\ UNCHANGED <<cfgvars, lifevars, created, sum_call>>

\* resumed after line 120: _summarize_text posts on the shared client
\* (lines 122, 167-180); a closed client refuses the request
ResumeSummarize(r) ==
    /\ run[r].pc = ResumePoint("summarize")
    /\ LET rr == [run[r] EXCEPT !.entered = Append(@, "summarize")]
       IN  IF httpx_client = "open"
           THEN /\ run' = [run EXCEPT ![r] =
                             [rr EXCEPT !.pc = "summarizing",
                                        !.called = Append(@, "summarizer")]]
                /\ UNCHANGED fs
           ELSE Raise(r, rr, Exc("summarize", "client has been closed"))
    /\ UNCHANGED <<cfgvars, lifevars, created, sum_call>>

\* the responses the summarizer stub gives a run
RunResponses ==
    {[status |-> 200, body |-> [shape |-> "object", has_key |-> FALSE, top |-> None,
        outputs |-> [t |-> "object", has |-> TRUE, val |-> "X"]]],
     [status |-> 200, body |-> [shape |-> "object", has_key |-> FALSE, top |-> None,
        outputs |-> NoOutputs]],
     [status |-> 200, body |-> [shape |-> "object", has_key |-> FALSE, top |-> None,
        outputs |-> [t |-> "null", has |-> FALSE, val |-> None]]],
     [status |-> 500, body |-> [shape |-> "object", has_key |-> FALSE, top |-> None,
        outputs |-> [t |-> "object", has |-> TRUE, val |-> "X"]]]}

\* the post returns a response or raises (timeout) (lines 180-193, 122-124)
SummarizeReturn(r) ==
    /\ run[r].pc = "summarizing"
    /\ \/ Raise(r, run[r], Exc("summarize", "ReadTimeout"))
       \/ \E resp \in RunResponses :
             LET res == _summarize_text(resp)
                 rr  == [run[r] EXCEPT !.resp = resp, !.log = @ \o res.log]
             IN  IF res.ok
                 THEN /\ run' = [run EXCEPT ![r] =
                                   [rr EXCEPT !.pc = "y_sum",
                                              !.returned = @ \cup {"summarize"},
                                              !.summary = res.value,
                                              !.notes = Append(@, SummaryNote(res.value))]]
                      /\ UNCHANGED fs
                 ELSE Raise(r, rr, res.exc)
    /\ UNCHANGED <<cfgvars, lifevars, created, sum_call>>

\* mutant: the end of a failed run disables the pipeline
Finish_disabling(r) ==
    /\ run[r].pc \in {"y_cfg", "y_sum", "y_err"}
    /\ Cleanup(r, run[r])
    /\ is_configured' = (is_configured /\ run[r].exc = NoExc)
    /\ UNCHANGED <<config, providers, init_fault, init_outcome, openai_client,
                   dify_api_key, dify_workflow_url, dify_input_variable,
                   dify_answer_key, lifevars, created, sum_call>>
\* the generator is resumed (or closed) after its last yield: line 108
\* returns; after lines 124 and 128 the finally block runs (lines 130-135)
Finish(r) ==
    /\ run[r].pc \in {"y_cfg", "y_sum", "y_err"}
    /\ Cleanup(r, run[r])
    /\ UNCHANGED <<cfgvars, lifevars, created, sum_call>>

\* the host closes the generator at a progress notification: GeneratorExit
\* is raised at the yield, is no Exception, and the finally block runs
Close(r) ==
    /\ run[r].pc \in {"y_recv", "y_dl", "y_tr"}
    /\ Cleanup(r, run[r])
    /\ UNCHANGED <<cfgvars, lifevars, created, sum_call>>

\* mutant: terminate leaves the client open
Terminate_without_close ==
    /\ terminate_calls < MaxTerminate
    /\ terminate_calls' = terminate_calls + 1
    /\ UNCHANGED <<cfgvars, httpx_client, close_calls, clients_created, fs,
                   created, run, sum_call>>
\* terminate (lines 195-197)
Terminate ==
    /\ terminate_calls < MaxTerminate
    /\ terminate_calls' = terminate_calls + 1
    /\ IF is_configured
       THEN httpx_client' = "closed" /\ close_calls' = close_calls + 1
       ELSE UNCHANGED <<httpx_client, close_calls>>
    /\ UNCHANGED <<cfgvars, clients_created, fs, created, run, sum_call>>

NoCall == [resp |-> [status |-> 200, body |-> [shape |-> "invalid",
             has_key |-> FALSE, outputs |-> NoOutputs, top |-> None]],
           done |-> FALSE, result |-> Raised("")]

Init ==
    /\ \E cfg \in Configs, reg \in Registries, fault \in InitFaults :
          Construct(cfg, reg, fault)
    /\ close_calls = 0
    /\ terminate_calls = 0
    /\ fs = {}
    /\ created = {}
    /\ run = [r \in Runs |-> IdleRun]
    /\ sum_call = NoCall

Next ==
    \/ \E r \in Runs : Start(r)
    \/ \E r \in Runs : ResumeDownload(r)
    \/ \E r \in Runs : DownloadReturn(r)
    \/ \E r \in Runs : ResumeTranscribe(r)
    \/ \E r \in Runs : TranscribeReturn(r)
    \/ \E r \in Runs : ResumeSummarize(r)
    \/ \E r \in Runs : SummarizeReturn(r)
    \/ \E r \in Runs : Finish(r)
    \/ \E r \in Runs : Close(r)
    \/ Terminate

Spec == Init /\ [][Next]_vars

(************** _summarize_text alone, on every response *******************)
\* a plugin built from a complete configuration
GoodConfig ==
    [stt_provider_id |-> "stt1", dify_provider_id |-> "dify1",
     dify_workflow_url |-> "https://dify/v1/workflows/run",
     dify_input_variable |-> None, dify_answer_key |-> None]
GoodRegistry ==
    [id \in {"stt1", "dify1"} |->
        [exists |-> TRUE, has_api_key |-> TRUE, api_key |-> "sk-key"]]

InitSum ==
    /\ Construct(GoodConfig, GoodRegistry, "none")
    /\ close_calls = 0
    /\ terminate_calls = 0
    /\ fs = {}
    /\ created = {}
    /\ run = [r \in Runs |-> IdleRun]
    /\ sum_call \in [resp : Responses, done : {FALSE}, result : {Raised("")}]

\* the response arrives and lines 181-193 run on it
SumCall ==
    /\ ~sum_call.done
    /\ sum_call' = [sum_call EXCEPT !.done = TRUE,
                                    !.result = _summarize_text(sum_call.resp)]
    /\ UNCHANGED <<cfgvars, lifevars, fs, created, run>>

NextSum == SumCall

SpecSum == InitSum /\ [][NextSum]_vars

\* The runs of a host that consumes every notification stream to its end
\* (async for over the generator, never aclose before the last yield) and
\* of services whose calls all return or raise: a started run is resumed at
\* every yield (lines 108-128) and every await completes (lines 114-122).
RunStep(r) ==
    \/ ResumeDownload(r)
    \/ DownloadReturn(r)
    \/ ResumeTranscribe(r)
    \/ TranscribeReturn(r)
    \/ ResumeSummarize(r)
    \/ SummarizeReturn(r)
    \/ Finish(r)

NextLive ==
    \/ \E r \in Runs : Start(r)
    \/ \E r \in Runs : RunStep(r)
    \/ Terminate

\* construction for the fair runs: the complete configuration, and the
\* three ways it is found unusable (no workflow URL, an STT provider that
\* is not registered, a provider lookup that raises)
InitLive ==
    /\ \E cfg \in {GoodConfig, [GoodConfig EXCEPT !.dify_workflow_url = ""],
                    [GoodConfig EXCEPT !.stt_provider_id = ""]},
          fault \in {"none", "get_dify"} :
          Construct(cfg, GoodRegistry, fault)
    /\ close_calls = 0
    /\ terminate_calls = 0
    /\ fs = {}
    /\ created = {}
    /\ run = [r \in Runs |-> IdleRun]
    /\ sum_call = NoCall

Fairness == \A r \in Runs : WF_vars(RunStep(r))

SpecLive == InitLive /\ [][NextLive]_vars /\ Fairness

(******************************** claims ***********************************)
\* the temp files run r created, and those of them still on storage
Own(r) == {f \in created : f[1] = r}
Left(r) == Own(r) \cap fs
Done(r) == run[r].pc = "done"
Invoked(r) == run[r].pc # "idle"
Kinds(notes) == [i \in 1..Len(notes) |-> notes[i].kind]
ErrorCount(notes) == Cardinality({i \in 1..Len(notes) : notes[i].kind = "error"})
AllStages == {"download", "transcribe", "summarize"}
IsPrefix(s, t) == Len(s) <= Len(t) /\ \A i \in 1..Len(s) : s[i] = t[i]

\* C1: every run on a configured plugin, whichever stage fails or none,
\* creates at most one audio temp file, and once the run has completed that
\* file is not on local storage (the deletion itself not being the fault).
C1_NoAudioFileOutlivesRun ==
    \A r \in Runs :
        is_configured =>
            /\ Cardinality(Own(r)) <= 1
            /\ (Done(r) /\ ~run[r].rm_failed => Left(r) = {})

\* C2: on a plugin left disabled by construction, every invocation yields
\* exactly the configuration-error notification, enters no stage, creates no
\* temp file and calls no external service.
C2_DisabledRejectsEveryRequest ==
    ~is_configured =>
        \A r \in Runs :
            Invoked(r) =>
                /\ run[r].pc \in {"y_cfg", "done"}
                /\ run[r].notes = <<MsgNotConfigured>>
                /\ run[r].entered = <<>>
                /\ run[r].called = <<>>
                /\ Own(r) = {}
C2_Witness ==
    ~is_configured /\ \E r \in Runs : Done(r) /\ Len(run[r].notes) = 1

\* the stage a notification belongs to: 1 download, 2 transcription,
\* 3 summarization, 4 the result
NoteStage(n) ==
    CASE n = MsgReceived    -> 1
      [] n = MsgDownloaded  -> 2
      [] n = MsgTranscribed -> 3
      [] OTHER              -> 4
StageIndex(stage) ==
    CASE stage = "download" -> 1 [] stage = "transcribe" -> 2 [] OTHER -> 3

\* C3: in every run in which a stage raised, exactly one error notification
\* is emitted, it embeds the message of the stage's error and is the last
\* notification, no notification of a later stage is emitted, and the error
\* does not leave the handler.
C3_StageErrorBecomesOneNotification ==
    \A r \in Runs :
        run[r].exc # NoExc =>
            LET n == run[r].notes
            IN  /\ ~run[r].escaped
                /\ ErrorCount(n) = 1
                /\ n[Len(n)].kind = "error"
                /\ n[Len(n)].text[Len(n[Len(n)].text)] = run[r].exc.msg
                /\ \A i \in 1..(Len(n) - 1) :
                       NoteStage(n[i]) <= StageIndex(run[r].exc.stage)
C3_Witness ==
    \E r \in Runs :
        /\ Done(r)
        /\ run[r].exc.stage = "transcribe"
        /\ Kinds(run[r].notes) = <<"progress", "progress", "error">>

\* C4: the stages are entered in the order download, transcription,
\* summarization, each at most once; a service is invoked at most once and
\* only after the stage before it returned a value; after a stage failed no
\* further stage is entered.
C4_StagesLinearNoRetry ==
    \A r \in Runs :
        /\ IsPrefix(run[r].entered, <<"download", "transcribe", "summarize">>)
        /\ Len(run[r].called)
               = Cardinality({run[r].called[i] : i \in 1..Len(run[r].called)})
        /\ \A i \in 1..Len(run[r].entered) :
               /\ run[r].entered[i] = "transcribe" => "download" \in run[r].returned
               /\ run[r].entered[i] = "summarize" => "transcribe" \in run[r].returned
        /\ \A i \in 1..Len(run[r].called) :
               /\ run[r].called[i] = "speech_to_text" => "download" \in run[r].returned
               /\ run[r].called[i] = "summarizer" => "transcribe" \in run[r].returned
        /\ run[r].exc # NoExc =>
               /\ run[r].entered # <<>>
               /\ run[r].entered[Len(run[r].entered)] = run[r].exc.stage
               /\ run[r].exc.stage \notin run[r].returned
C4_Witness ==
    \E r \in Runs :
        /\ Done(r)
        /\ run[r].called = <<"downloader", "speech_to_text", "summarizer">>
        /\ run[r].exc.stage = "summarize"

\* C5 as stated: when all three stages succeed the notifications are exactly
\* six, one per announcement (downloading, downloaded, transcribing,
\* transcript-complete, summarizing), the sixth being the answer text itself.
C5_SixNotifications ==
    \A r \in Runs :
        run[r].returned = AllStages =>
            LET n == run[r].notes
            IN  /\ Len(n) = 6
                /\ [i \in 1..5 |-> n[i].says] =
                      << <<"downloading">>, <<"downloaded">>, <<"transcribing">>,
                         <<"transcript_complete">>, <<"summarizing">> >>
                /\ n[6].text = <<run[r].summary>>
                /\ ErrorCount(n) = 0

\* C5 amended: when all three stages succeed the notifications are exactly
\* four: one announcing the download, one announcing the finished download
\* and the transcription, one announcing the finished transcript and the
\* summarization, and last the summary message embedding the summarizer's
\* answer; no error notification is emitted.
C5_FourNotifications ==
    \A r \in Runs :
        run[r].returned = AllStages =>
            LET n == run[r].notes
            IN  /\ Len(n) = 4
                /\ Kinds(n) = <<"progress", "progress", "progress", "summary">>
                /\ [i \in 1..3 |-> n[i].says] =
                      << <<"downloading">>, <<"downloaded", "transcribing">>,
                         <<"transcript_complete", "summarizing">> >>
                /\ run[r].summary \in Answers
                /\ n[4].text = <<"Summary:", run[r].summary>>
                /\ ErrorCount(n) = 0
C5_Witness ==
    \E r \in Runs : Done(r) /\ run[r].returned = AllStages /\ Len(run[r].notes) = 4

\* C6: when the downloader fails the run emits exactly the downloading
\* message and one error message carrying the downloader's failure, calls
\* neither the transcriber nor the summarizer, and leaves no temp file of
\* the run on storage.
C6_DownloadFailureLeavesNothing ==
    \A r \in Runs :
        Done(r) /\ run[r].exc.stage = "download" =>
            /\ run[r].notes = <<MsgReceived, ErrorNote(run[r].exc)>>
            /\ run[r].called = <<"downloader">>
            /\ Left(r) = {}

\* the response carries outputs[k], resp. a top-level k
HasOutputsKey(body) ==
    body.shape = "object" /\ body.outputs.t = "object" /\ body.outputs.has
HasTopKey(body) == body.shape = "object" /\ body.top # None

\* C7: on a 2xx response _summarize_text returns outputs[k] when present
\* (whatever the top-level k), else the top-level k when present, else
\* fails; on a non-2xx response it fails whatever the body.
C7_AnswerResolution ==
    sum_call.done =>
        LET resp == sum_call.resp
            res  == sum_call.result
        IN  IF ~(resp.status >= 200 /\ resp.status <= 299) THEN ~res.ok
            ELSE IF HasOutputsKey(resp.body)
                 THEN res.ok /\ res.value = resp.body.outputs.val
            ELSE IF HasTopKey(resp.body)
                 THEN res.ok /\ res.value = resp.body.top
            ELSE ~res.ok

\* C8: whenever a run has been accepted (it entered the download stage) the
\* speech-to-text credential, the summarizer URL, the summarizer API key,
\* the input field name and the answer field name are all non-empty.
C8_AcceptedImpliesFullyPopulated ==
    \A r \in Runs :
        run[r].entered # <<>> =>
            /\ openai_client.made /\ Truthy(openai_client.api_key)
            /\ Truthy(dify_workflow_url)
            /\ Truthy(dify_api_key)
            /\ Truthy(dify_input_variable)
            /\ Truthy(dify_answer_key)

\* the configuration names two providers and a URL, and both provider ids
\* resolve to an existing instance with an api_key attribute
ConfigComplete ==
    /\ Truthy(config.stt_provider_id)
    /\ Truthy(config.dify_provider_id)
    /\ Truthy(config.dify_workflow_url)
    /\ providers[config.stt_provider_id].exists
    /\ providers[config.stt_provider_id].has_api_key
    /\ providers[config.dify_provider_id].exists
    /\ providers[config.dify_provider_id].has_api_key

\* C9: construction never raises, and it leaves the pipeline enabled exactly
\* when the configuration is complete and no call of the validation raised;
\* a missing piece or an exception during validation leaves it disabled.
C9_EnabledIffConfigComplete ==
    /\ init_outcome \in {"ok", "caught"}
    /\ is_configured <=> (ConfigComplete /\ init_fault = "none")
    /\ init_outcome = "caught" => ~is_configured
C9_Witness == is_configured /\ ConfigComplete /\ init_outcome = "ok"

\* C10: enabled or disabled, the plugin creates one HTTP client at
\* construction and terminate closes it exactly once: after terminate no
\* client of the plugin is open.
C10_ClientClosedByTerminate ==
    /\ clients_created = 1
    /\ terminate_calls >= 1 => httpx_client = "closed" /\ close_calls = 1

\* C11: a failing deletion of the temp file changes nothing the caller sees:
\* the step that ends a run adds no notification whether os.remove succeeds
\* or fails, and a failing os.remove is logged and does not leave the
\* handler.
C11_CleanupFailureNotSurfaced ==
    [][\A r \in Runs :
          (~Done(r) /\ Done(r)') =>
              /\ run'[r].notes = run[r].notes
              /\ run'[r].escaped = run[r].escaped
              /\ run'[r].rm_failed =>
                     /\ run[r].audio_path \in fs'
                     /\ run'[r].log =
                            Append(run[r].log, LogEntry("line 135", "OSError", NoBody))
              /\ ~run'[r].rm_failed => run'[r].log = run[r].log]_vars
C11_Witness ==
    \E r \in Runs :
        /\ Done(r) /\ run[r].rm_failed /\ ~run[r].escaped
        /\ run[r].audio_path \in fs
        /\ run[r].notes[Len(run[r].notes)].kind = "summary"

\* the file run r reads and deletes is its own, no other run holds it, and
\* it is on storage until r's own cleanup
OwnFileOnly(r) ==
    LET p == run[r].audio_path
        f == run[r].file_path
    IN  /\ f # NoPath => f \in Own(r)
        /\ p # NoPath => p = f
        /\ \A q \in Runs \ {r} : f # NoPath => run[q].file_path # f
        /\ run[r].pc = "transcribing" => p \in fs
        /\ (p # NoPath /\ ~Done(r)) => p \in fs

\* C12: under any interleaving of runs each run records and deletes only
\* the temp file it created: a file leaves storage only in the cleanup of
\* the run that created and recorded it, no two runs hold the same file,
\* and a file is on storage for as long as its run's transcription reads it.
C12_RunsTouchOnlyOwnFile ==
    /\ [](\A r \in Runs : OwnFileOnly(r))
    /\ [][\A f \in fs \ fs' :
            \E r \in Runs : /\ ~Done(r) /\ Done(r)'
                             /\ run[r].audio_path = f
                             /\ f \in Own(r)]_vars
C12_Witness ==
    \E r \in Runs, q \in Runs :
        /\ r # q
        /\ run[r].pc = "transcribing" /\ run[r].audio_path \in fs
        /\ Done(q) /\ run[q].audio_path # NoPath /\ run[q].audio_path \notin fs

StageOrder == <<"download", "transcribe", "summarize">>
\* what the progress message of each stage announces
StageSays == <<"downloading", "transcribing", "summarizing">>

\* C13: in a run of a configured plugin, a stage is entered only from the
\* yield of the progress notification that announces it: when the i-th
\* stage is entered the i-th notification is already emitted, is a progress
\* notification of that stage and no external call of the stage has been
\* made, and that notification was emitted in the step in which the call of
\* the stage before it returned.
C13_StageAnnouncedBeforeEntered ==
    [][\A r \in Runs :
          /\ Len(run'[r].entered) > Len(run[r].entered) =>
                LET i == Len(run'[r].entered)
                    n == run[r].notes
                IN  /\ is_configured
                    /\ run'[r].entered[i] = StageOrder[i]
                    /\ Len(n) = i
                    /\ n[i].kind = "progress" /\ NoteStage(n[i]) = i
                    /\ \E j \in 1..Len(n[i].says) : n[i].says[j] = StageSays[i]
                    /\ Len(run[r].called) < i
                    /\ i > 1 => StageOrder[i - 1] \in run[r].returned
          /\ \A i \in (Len(run[r].notes) + 1)..Len(run'[r].notes) :
                (run'[r].notes[i].kind = "progress" /\ i > 1) =>
                    /\ StageOrder[i - 1] \in run'[r].returned
                    /\ StageOrder[i - 1] \notin run[r].returned
                    /\ Len(run'[r].entered) = i - 1]_vars
C13_Witness ==
    \E r \in Runs :
        /\ run[r].pc = "summarizing"
        /\ run[r].entered = StageOrder
        /\ run[r].notes = <<MsgReceived, MsgDownloaded, MsgTranscribed>>

\* C14: when the summarizer answers a run with a 2xx response whose body has
\* the answer key neither under outputs nor at top level, the run fails in
\* summarization with one error notification, its last, and the raw body
\* is in the log written for that failure.
C14_FormatFailureCarriesBody ==
    \A r \in Runs :
        LET resp == run[r].resp
        IN  (/\ resp # NoResponse
             /\ ~RaisesForStatus(resp.status)
             /\ ~HasOutputsKey(resp.body)
             /\ ~HasTopKey(resp.body)) =>
                /\ run[r].exc.stage = "summarize"
                /\ ErrorCount(run[r].notes) = 1
                /\ run[r].notes[Len(run[r].notes)].kind = "error"
                /\ \E i \in 1..Len(run[r].log) :
                       run[r].log[i] = LogEntry("line 192", None, resp.body)

\* what construction decided from the configuration
EnabledAtConstruction == Validate(config, providers, init_fault).is_configured

\* C15: no step of a run (nor terminate) changes is_configured, the
\* provider credentials, the workflow URL or the field names; is_configured
\* stays what construction decided, so every request made to a disabled
\* pipeline is rejected and every request made to an enabled one is
\* accepted, whatever runs succeeded or failed before it.
C15_RunsLeaveConfigurationAlone ==
    [][/\ cfgvars' = cfgvars
       /\ is_configured = EnabledAtConstruction
       /\ \A r \in Runs :
             (run[r].pc = "idle" /\ run'[r].pc # "idle") =>
                 /\ run'[r].pc = "y_cfg" <=> ~EnabledAtConstruction
                 /\ run'[r].pc = "y_recv" <=> EnabledAtConstruction]_vars
C15_Witness ==
    /\ is_configured
    /\ \E q \in Runs, r \in Runs :
          /\ Done(q) /\ run[q].exc # NoExc
          /\ run[r].pc = "y_recv" /\ run[r].notes = <<MsgReceived>>

\* position of a run in the handler: a run only moves forward
PcRank(pc) ==
    CASE pc = "idle"         -> 0
      [] pc = "y_cfg"        -> 1
      [] pc = "y_recv"       -> 1
      [] pc = "downloading"  -> 2
      [] pc = "y_dl"         -> 3
      [] pc = "transcribing" -> 4
      [] pc = "y_tr"         -> 5
      [] pc = "summarizing"  -> 6
      [] pc = "y_sum"        -> 7
      [] pc = "y_err"        -> 7
      [] pc = "done"         -> 8
\* the run ended after a terminal notification and after its finally block
Ended(r) ==
    /\ Done(r)
    /\ Len(run[r].notes) > 0
    /\ run[r].notes[Len(run[r].notes)].kind \in {"summary", "error", "config_error"}
    /\ ~run[r].escaped
    /\ MustRemove(run[r].audio_path) => run[r].rm_failed

\* C16: when every external call returns or raises and the host resumes the
\* handler at every notification, every started run eventually ends, after
\* a terminal notification (the summary or an error) and its cleanup; a run
\* never moves back to an earlier position and enters no stage twice.
C16_EveryRunEnds ==
    /\ \A r \in Runs : Invoked(r) ~> Ended(r)
    /\ [][\A r \in Runs :
            /\ run'[r] # run[r] => PcRank(run'[r].pc) > PcRank(run[r].pc)
            /\ IsPrefix(run'[r].entered, StageOrder)]_vars
C16_Witness ==
    \E q \in Runs, r \in Runs :
        /\ Ended(q) /\ run[q].notes[Len(run[q].notes)].kind = "summary"
        /\ Ended(r) /\ run[r].notes[Len(run[r].notes)].kind = "error"
        /\ run[r].entered = StageOrder

LastKind(r) ==
    IF Len(run[r].notes) = 0 THEN "none" ELSE run[r].notes[Len(run[r].notes)].kind

\* C17 as stated: in every run that recorded an audio path, the file is
\* deleted only after the terminal notification (summary or error) was
\* handed to the caller.
C17_DeletedOnlyAfterTerminalNote ==
    \A r \in Runs :
        (run[r].audio_path # NoPath /\ run[r].audio_path \notin fs) =>
            LastKind(r) \in {"summary", "error"}

\* C17 amended: the recorded file is deleted only in the step in which the
\* caller resumes or closes the stream at a yield, a step that emits
\* nothing; when a terminal notification is delivered the file still
\* exists; a run deletes its file without a terminal notification only when
\* the caller closed the stream at a progress notification.
C17_DeletedOnlyAtResumeOrClose ==
    [][\A r \in Runs :
          LET p == run[r].audio_path
          IN  /\ (p # NoPath /\ p \in fs /\ p \notin fs') =>
                    /\ run[r].pc \in {"y_dl", "y_tr", "y_sum", "y_err"}
                    /\ Done(r)'
                    /\ run'[r].notes = run[r].notes
                    /\ LastKind(r) \notin {"summary", "error"} =>
                           run[r].pc \in {"y_dl", "y_tr"}
              /\ (run'[r].pc \in {"y_sum", "y_err"} /\ run'[r].audio_path # NoPath) =>
                    run'[r].audio_path \in fs']_vars
C17_Witness ==
    \E q \in Runs, r \in Runs :
        /\ run[r].pc = "y_err" /\ run[r].audio_path # NoPath
        /\ run[r].audio_path \in fs
        /\ Done(q) /\ LastKind(q) = "summary" /\ run[q].audio_path \notin fs

ClosedClient == "client has been closed"

\* C18: terminate on an enabled plugin closes the shared client and leaves
\* is_configured true; after it a request is still accepted; a run that
\* enters summarization after it, whenever it started, fails there without
\* a call to the summarizer and with exactly one error notification while
\* its file still exists, and its cleanup then removes the recorded file
\* unless os.remove itself fails.
C18_TerminateClosesClientOnly ==
    [][/\ (is_configured /\ terminate_calls' > terminate_calls) =>
              httpx_client' = "closed" /\ is_configured'
       /\ (is_configured /\ terminate_calls >= 1) =>
              /\ httpx_client = "closed"
              /\ \A r \in Runs :
                    /\ (run[r].pc = "idle" /\ run'[r].pc # "idle") =>
                            run'[r].pc = "y_recv"
                    /\ Len(run'[r].entered) > Len(run[r].entered)
                          /\ run'[r].entered[Len(run'[r].entered)] = "summarize" =>
                            /\ run'[r].pc = "y_err"
                            /\ run'[r].exc = Exc("summarize", ClosedClient)
                            /\ ErrorCount(run'[r].notes) = 1
                            /\ run'[r].called = run[r].called
                            /\ run'[r].audio_path \in fs'
       /\ \A r \in Runs :
             (run[r].exc.msg = ClosedClient /\ ~Done(r) /\ Done(r)') =>
                 /\ Kinds(run'[r].notes) = <<"progress", "progress", "progress", "error">>
                 /\ ~run'[r].rm_failed => run'[r].audio_path \notin fs']_vars
C18_Witness ==
    /\ is_configured /\ terminate_calls >= 1 /\ httpx_client = "closed"
    /\ \E q \in Runs, r \in Runs :
          /\ Done(r) /\ run[r].exc = Exc("summarize", ClosedClient)
          /\ run[r].audio_path # NoPath /\ run[r].audio_path \notin fs
          /\ run[q].pc = "y_err" /\ run[q].exc = Exc("summarize", ClosedClient)

====
